---------------------------- MODULE Spec2Model ----------------------------
(***************************************************************************)
(* Model of RemoteClientContainer (spyder/plugins/remoteclient/widgets/    *)
(* container.py): the kernel-connection handshake between an IPython       *)
(* console client and a kernel started on a remote server; and of the      *)
(* collection hook of conftest.py, which splits the test suite into a slow *)
(* and a fast run.                                                         *)
(*                                                                         *)
(* Python values are wrapped so that None, strings and integers stay       *)
(* distinct and comparable: None is <<>>, the string "x" is <<"x">>, the   *)
(* integer 22 is <<22>>.  An exception instance is <<class, args>>.        *)
(***************************************************************************)
EXTENDS Integers, Sequences, FiniteSets, TLC

VARIABLES
    conf,                \* configuration store read by get_conf(key)
    secrets,             \* secure store read by get_conf(key, secure=True)
    kernel_id,           \* ipyclient.kernel_id, per client
    signal_connections,  \* connections of ipyclient.sig_shutdown_kernel_requested
    files,               \* local connection files: path -> contents
    workers,             \* the workers created so far, by job number
    queue,               \* worker manager: workers waiting for a thread
    running,             \* worker manager: workers running in a thread
    closed,              \* on_close was called
    client_calls,        \* per job: the client methods its callback invoked
    call_log,            \* one record per on_kernel_started call
    shutdown_log,        \* one record per shutdown request emitted by a client
    session              \* the pytest session that conftest.py configures

vars == <<conf, secrets, kernel_id, signal_connections, files, workers,
          queue, running, closed, client_calls, call_log, shutdown_log, session>>

-----------------------------------------------------------------------------
(* Bounds of the model *)

MaxCalls == 3
MaxPoolCalls == 6
MaxCredCalls == 1
MaxStoreCalls == 2
MaxItems == 4
MaxSignalCalls == 2
MaxShutdowns == 2

-----------------------------------------------------------------------------
(* Python values *)

None == <<>>
PyStrVal(s) == <<s>>
PyIntVal(n) == <<n>>

\* bool(v) for v a str or None
PyBool(v) == v # None /\ v # PyStrVal("")

\* f"{v}" for v a str or None
PyFormat(v) == IF v = None THEN "None" ELSE v[1]

\* f"{v}" for v an int or None
PyFormatInt(v) == IF v = None THEN "None" ELSE ToString(v[1])

\* An exception instance raised by the tunnel function.
PyException(cls, args) == <<cls, args>>

\* bool(error): None is falsy, an exception instance is truthy
PyBoolError(error) == error # None

\* str(error): BaseException.__str__ gives "" without arguments and
\* str(args[0]) with one argument
PyStrError(error) ==
    IF Len(error[2]) = 0 THEN ""
    ELSE IF Len(error[2]) = 1 THEN error[2][1]
    ELSE "(...)"

-----------------------------------------------------------------------------
(* The environment: servers, clients, kernels *)

Servers == {"s1", "s2"}
Clients == {"c1", "c2"}

\* ipyclient.server_id
server_id(ipyclient) == IF ipyclient = "c1" THEN "s1" ELSE "s2"

\* AuthenticationMethod
Password == "password_login"
KeyFile == "keyfile_login"
ConfigFile == "configfile_login"
AuthenticationMethod == {Password, KeyFile, ConfigFile}

\* Results of KernelHandler.tunnel_to_kernel: the local ports on success,
\* an exception otherwise.
Outputs == { <<5001, 5002>> }
Errors == { PyException("RuntimeError", <<"Tunnel failed to start">>),
            PyException("RuntimeError", <<>>) }

-----------------------------------------------------------------------------
(* Configuration keys and stores *)

Key2(config_id, option) == config_id \o "/" \o option
Key3(config_id, auth_method, option) ==
    config_id \o "/" \o PyFormat(auth_method) \o "/" \o option

PlainKeys ==
    { Key2(s, "auth_method") : s \in Servers } \cup
    { Key3(s, PyStrVal(m), o) : s \in Servers, m \in AuthenticationMethod,
                                o \in {"address", "username", "port", "keyfile"} }

SecureKeys ==
    { Key2(s, o) : s \in Servers, o \in {"password", "passphrase", "passpharse"} }

\* The fields of a server that do not depend on what the model varies: each
\* method's namespace holds its own address, username, port and key file.
BaseConf ==
    [k \in PlainKeys |->
        CASE \E s \in Servers : k = Key2(s, "auth_method") -> PyStrVal(Password)
          [] \E s \in Servers : k = Key3(s, PyStrVal(Password), "address") -> PyStrVal("pw.host")
          [] \E s \in Servers : k = Key3(s, PyStrVal(KeyFile), "address") -> PyStrVal("kf.host")
          [] \E s \in Servers : k = Key3(s, PyStrVal(ConfigFile), "address") -> PyStrVal("cf.host")
          [] \E s \in Servers : k = Key3(s, PyStrVal(Password), "username") -> PyStrVal("pwuser")
          [] \E s \in Servers : k = Key3(s, PyStrVal(KeyFile), "username") -> PyStrVal("kfuser")
          [] \E s \in Servers : k = Key3(s, PyStrVal(ConfigFile), "username") -> PyStrVal("cfuser")
          [] \E s \in Servers : k = Key3(s, PyStrVal(Password), "port") -> PyIntVal(22)
          [] \E s \in Servers : k = Key3(s, PyStrVal(KeyFile), "port") -> PyIntVal(2222)
          [] \E s \in Servers : k = Key3(s, PyStrVal(ConfigFile), "port") -> PyIntVal(2200)
          [] \E s \in Servers : k = Key3(s, PyStrVal(Password), "keyfile") -> PyStrVal("/keys/pw")
          [] \E s \in Servers : k = Key3(s, PyStrVal(KeyFile), "keyfile") -> PyStrVal("/keys/id_rsa")
          [] OTHER -> PyStrVal("/keys/cf")]

\* get_conf(key) and get_conf(key, secure=True)
get_conf(key) == conf[key]
get_conf_secure(key) == secrets[key]


\* One get_conf call, as logged by the model.
Read(key, secure, value) == [key |-> key, secure |-> secure, value |-> value]

-----------------------------------------------------------------------------
(* on_kernel_started *)

\* ResolveCredentials with the else branch giving sshkey and password the
\* value None instead of leaving them unassigned
ResolveCredentialsElseNone(config_id, auth_method) ==
    IF auth_method = PyStrVal(Password)
    THEN LET password == get_conf_secure(Key2(config_id, "password"))
         IN [bound |-> TRUE, sshkey |-> None, password |-> password,
             reads |-> << Read(Key2(config_id, "password"), TRUE, password) >>]
    ELSE IF auth_method = PyStrVal(KeyFile)
    THEN LET sshkey == get_conf(Key3(config_id, auth_method, "keyfile"))
             passpharse == get_conf_secure(Key2(config_id, "passpharse"))
         IN [bound |-> TRUE, sshkey |-> sshkey,
             password |-> IF PyBool(passpharse) THEN passpharse ELSE None,
             reads |-> << Read(Key3(config_id, auth_method, "keyfile"), FALSE, sshkey),
                          Read(Key2(config_id, "passpharse"), TRUE, passpharse) >>]
    ELSE [bound |-> TRUE, sshkey |-> None, password |-> None, reads |-> << >>]

\* ResolveCredentials with the fetched passphrase used as it is
ResolveCredentialsRawPassphrase(config_id, auth_method) ==
    IF auth_method = PyStrVal(Password)
    THEN LET password == get_conf_secure(Key2(config_id, "password"))
         IN [bound |-> TRUE, sshkey |-> None, password |-> password,
             reads |-> << Read(Key2(config_id, "password"), TRUE, password) >>]
    ELSE IF auth_method = PyStrVal(KeyFile)
    THEN LET sshkey == get_conf(Key3(config_id, auth_method, "keyfile"))
             passpharse == get_conf_secure(Key2(config_id, "passpharse"))
         IN [bound |-> TRUE, sshkey |-> sshkey,
             password |-> passpharse,
             reads |-> << Read(Key3(config_id, auth_method, "keyfile"), FALSE, sshkey),
                          Read(Key2(config_id, "passpharse"), TRUE, passpharse) >>]
    ELSE [bound |-> FALSE, sshkey |-> None, password |-> None, reads |-> << >>]

\* "Get password or keyfile/passphrase": the sshkey and password locals after
\* the if/elif/else, whether they were assigned at all, and the reads made.
ResolveCredentials(config_id, auth_method) ==
    IF auth_method = PyStrVal(Password)
    THEN LET password == get_conf_secure(Key2(config_id, "password"))
         IN [bound |-> TRUE, sshkey |-> None, password |-> password,
             reads |-> << Read(Key2(config_id, "password"), TRUE, password) >>]
    ELSE IF auth_method = PyStrVal(KeyFile)
    THEN LET sshkey == get_conf(Key3(config_id, auth_method, "keyfile"))
             passpharse == get_conf_secure(Key2(config_id, "passpharse"))
         IN [bound |-> TRUE, sshkey |-> sshkey,
             password |-> IF PyBool(passpharse) THEN passpharse ELSE None,
             reads |-> << Read(Key3(config_id, auth_method, "keyfile"), FALSE, sshkey),
                          Read(Key2(config_id, "passpharse"), TRUE, passpharse) >>]
    ELSE [bound |-> FALSE, sshkey |-> None, password |-> None, reads |-> << >>]

\* "Set hostname in the format expected by KernelHandler"
ResolveHostname(config_id, auth_method) ==
    LET address == get_conf(Key3(config_id, auth_method, "address"))
        username == get_conf(Key3(config_id, auth_method, "username"))
        port == get_conf(Key3(config_id, auth_method, "port"))
    IN [hostname |-> PyFormat(username) \o "@" \o PyFormat(address) \o ":"
                        \o PyFormatInt(port),
        reads |-> << Read(Key3(config_id, auth_method, "address"), FALSE, address),
                     Read(Key3(config_id, auth_method, "username"), FALSE, username),
                     Read(Key3(config_id, auth_method, "port"), FALSE, port) >>]

\* KernelHandler.new_connection_file(): a path no earlier attempt was given
new_connection_file == "kernel-" \o ToString(Len(call_log) + 1) \o ".json"

\* json.dump(connection_info, f)
json_dump(connection_info) == << "json", connection_info >>

\* One thread more than the manager is given
max_threads_raised == 5 + 1

\* The number of threads of the worker manager
max_threads == 5

\* WorkerManager: worker.start() puts the worker in the queue; the manager
\* then gives the head of the queue a thread if fewer than max_threads run.
PoolStart(j) ==
    LET q == Append(queue, j)
    IN IF Cardinality(running) < max_threads
       THEN /\ running' = running \cup {Head(q)}
            /\ queue' = Tail(q)
       ELSE /\ running' = running
            /\ queue' = q

\* The worker as on_kernel_started leaves it: created with the arguments of
\* the tunnel function, given its five attributes, and started.
NewWorker(ipyclient, kernel_info, connection_file, hostname, sshkey, password) ==
    [args |-> << kernel_info.connection_info, hostname, sshkey, password >>,
     ipyclient |-> ipyclient,
     connection_file |-> connection_file,
     hostname |-> hostname,
     sshkey |-> sshkey,
     password |-> password,
     history |-> << "Created", "Submitted" >>,
     output |-> None,
     error |-> None,
     terminated |-> FALSE]

\* One statement of on_kernel_started, named by what it does
Step(op, arg) == [op |-> op, arg |-> arg]

\* HandlerSteps with worker.start() placed right after the worker is created
HandlerStepsStartFirst(bound) ==
    << Step("resolve", ""), Step("write_file", "") >> \o
    IF bound
    THEN << Step("create_worker", ""),
            Step("start", ""),
            Step("set", "ipyclient"),
            Step("set", "connection_file"),
            Step("set", "hostname"),
            Step("set", "sshkey"),
            Step("set", "password"),
            Step("connect_sig_finished", "") >>
    ELSE << Step("raise", "UnboundLocalError") >>

\* The statements on_kernel_started executes, in the order of the source:
\* the get_conf block, the file write, create_python_worker (which raises
\* when sshkey is unbound), the five attribute assignments, the connection of
\* sig_finished, and worker.start()
HandlerSteps(bound) ==
    << Step("resolve", ""), Step("write_file", "") >> \o
    IF bound
    THEN << Step("create_worker", ""),
            Step("set", "ipyclient"),
            Step("set", "connection_file"),
            Step("set", "hostname"),
            Step("set", "sshkey"),
            Step("set", "password"),
            Step("connect_sig_finished", ""),
            Step("start", "") >>
    ELSE << Step("raise", "UnboundLocalError") >>

on_kernel_started(ipyclient, kernel_info) ==
    LET config_id == server_id(ipyclient)
        auth_method == get_conf(Key2(config_id, "auth_method"))
        host == ResolveHostname(config_id, auth_method)
        cred == ResolveCredentials(config_id, auth_method)
        connection_file == new_connection_file
        j == Len(workers) + 1
        reads == << Read(Key2(config_id, "auth_method"), FALSE, auth_method) >>
                     \o host.reads \o cred.reads
    IN /\ kernel_id' = [kernel_id EXCEPT ![ipyclient] = PyStrVal(kernel_info.id)]
       /\ signal_connections' =
              [signal_connections EXCEPT ![ipyclient] = @ + 1]
       /\ files' = [p \in DOMAIN files \cup {connection_file} |->
                       IF p = connection_file
                       THEN json_dump(kernel_info.connection_info)
                       ELSE files[p]]
       /\ IF cred.bound
          THEN /\ workers' = Append(workers,
                      NewWorker(ipyclient, kernel_info, connection_file,
                                host.hostname, cred.sshkey, cred.password))
               /\ client_calls' = Append(client_calls, << >>)
               /\ PoolStart(j)
          ELSE \* sshkey is unbound at the create_python_worker call
               UNCHANGED << workers, client_calls, queue, running >>
       /\ call_log' = Append(call_log,
              [ipyclient |-> ipyclient,
               kernel_info |-> kernel_info,
               auth_method |-> auth_method,
               reads |-> reads,
               connection_file |-> connection_file,
               steps |-> HandlerSteps(cred.bound),
               raised |-> IF cred.bound THEN "" ELSE "UnboundLocalError",
               job |-> IF cred.bound THEN j ELSE 0])
       /\ UNCHANGED << shutdown_log, session, conf, secrets, closed >>

-----------------------------------------------------------------------------
(* The worker manager and the tunnel workers *)

State(w) == w.history[Len(w.history)]

\* A worker's thread runs KernelHandler.tunnel_to_kernel(*args): it returns
\* the local ports (output) or raises (error), and the thread is given back.
WorkerRun(j, output, error) ==
    /\ j \in running
    /\ workers' = [workers EXCEPT
           ![j].output = output,
           ![j].error = error,
           ![j].history = Append(@, IF error = None THEN "Succeeded" ELSE "Failed")]
    /\ running' = running \ {j}
    /\ UNCHANGED << shutdown_log, session, conf, secrets, kernel_id, signal_connections, files, queue,
                    closed, client_calls, call_log >>

\* The manager gives a free thread to the worker at the head of the queue.
WorkerManagerStartNext ==
    /\ queue # << >>
    /\ Cardinality(running) < max_threads
    /\ running' = running \cup {Head(queue)}
    /\ queue' = Tail(queue)
    /\ UNCHANGED << shutdown_log, session, conf, secrets, kernel_id, signal_connections, files, workers,
                    closed, client_calls, call_log >>

\* WorkerManager.terminate_all(): every outstanding worker is terminated and
\* its sig_finished is never delivered.
terminate_all ==
    /\ workers' = [j \in DOMAIN workers |->
                      IF State(workers[j]) \in {"Attached", "Reported"}
                      THEN workers[j]
                      ELSE [workers[j] EXCEPT !.terminated = TRUE]]
    /\ queue' = << >>
    /\ running' = {}

-----------------------------------------------------------------------------
(* _finish_kernel_connection and on_close *)

ClientCall(method, ipyclient, arg) ==
    [method |-> method, ipyclient |-> ipyclient, arg |-> arg]

\* kernel_handler fetching the password again when the worker has finished
kernel_handler_rereads(worker, output) ==
    [connection_file |-> worker.connection_file,
     hostname |-> worker.hostname,
     sshkey |-> worker.sshkey,
     password |-> get_conf_secure(Key2(server_id(worker.ipyclient), "password")),
     kernel_ports |-> output]

\* kernel_handler with the key and the password in each other's place
kernel_handler_swapped(worker, output) ==
    [connection_file |-> worker.connection_file,
     hostname |-> worker.hostname,
     sshkey |-> worker.password,
     password |-> worker.sshkey,
     kernel_ports |-> output]

\* KernelHandler.from_connection_file(worker.connection_file, worker.hostname,
\*     worker.sshkey, worker.password, kernel_ports=output)
kernel_handler(worker, output) ==
    [connection_file |-> worker.connection_file,
     hostname |-> worker.hostname,
     sshkey |-> worker.sshkey,
     password |-> worker.password,
     kernel_ports |-> output]

\* HandleError reporting to the client of the first job instead of the
\* client of the job that failed
HandleErrorFirstClient(j, error) ==
    /\ client_calls' = [client_calls EXCEPT ![j] = Append(@,
           ClientCall("show_kernel_error", workers[1].ipyclient,
                      PyStrVal(PyStrError(error))))]
    /\ workers' = [workers EXCEPT ![j].history = Append(@, "Reported")]

\* "Handle errors": the branch taken when error is truthy
HandleError(j, error) ==
    /\ client_calls' = [client_calls EXCEPT ![j] = Append(@,
           ClientCall("show_kernel_error", workers[j].ipyclient,
                      PyStrVal(PyStrError(error))))]
    /\ workers' = [workers EXCEPT ![j].history = Append(@, "Reported")]

\* "Connect client to the kernel": the rest of the callback
ConnectClient(j, output) ==
    /\ client_calls' = [client_calls EXCEPT ![j] = Append(@,
           ClientCall("connect_kernel", workers[j].ipyclient,
                      kernel_handler(workers[j], output)))]
    /\ workers' = [workers EXCEPT ![j].history = Append(@, "Attached")]

\* _finish_kernel_connection starting the worker again after an error
_finish_kernel_connection_retry(j, output, error) ==
    /\ IF PyBoolError(error)
       THEN /\ client_calls' = [client_calls EXCEPT ![j] = Append(@,
                   ClientCall("show_kernel_error", workers[j].ipyclient,
                              PyStrVal(PyStrError(error))))]
            /\ workers' = [workers EXCEPT
                   ![j].history = @ \o << "Reported", "Submitted" >>]
            /\ queue' = Append(queue, j)
       ELSE /\ ConnectClient(j, output)
            /\ queue' = queue
    /\ UNCHANGED << shutdown_log, session, conf, secrets, kernel_id,
                    signal_connections, files, running, closed, call_log >>

\* _finish_kernel_connection without the return that ends the error branch
_finish_kernel_connection_no_return(j, output, error) ==
    /\ IF PyBoolError(error)
       THEN /\ client_calls' = [client_calls EXCEPT ![j] = @ \o
                   << ClientCall("show_kernel_error", workers[j].ipyclient,
                                 PyStrVal(PyStrError(error))),
                      ClientCall("connect_kernel", workers[j].ipyclient,
                                 kernel_handler(workers[j], output)) >>]
            /\ workers' = [workers EXCEPT
                   ![j].history = @ \o << "Reported", "Attached" >>]
       ELSE ConnectClient(j, output)
    /\ UNCHANGED << shutdown_log, session, conf, secrets, kernel_id, signal_connections, files, queue,
                    running, closed, call_log >>

\* _finish_kernel_connection returning on an error without telling the client
_finish_kernel_connection_silent(j, output, error) ==
    /\ IF PyBoolError(error)
       THEN UNCHANGED << client_calls, workers >>
       ELSE ConnectClient(j, output)
    /\ UNCHANGED << shutdown_log, session, conf, secrets, kernel_id, signal_connections, files, queue,
                    running, closed, call_log >>

\* The slot of worker.sig_finished, run with (worker, output, error)
_finish_kernel_connection(j, output, error) ==
    /\ IF PyBoolError(error)
       THEN HandleError(j, error)
       ELSE ConnectClient(j, output)
    /\ UNCHANGED << shutdown_log, session, conf, secrets, kernel_id, signal_connections, files, queue,
                    running, closed, call_log >>

\* on_close that does not terminate the workers
on_close_without_terminate ==
    /\ closed' = TRUE
    /\ UNCHANGED << shutdown_log, session, conf, secrets, kernel_id, signal_connections, files, workers,
                    queue, running, client_calls, call_log >>

\* on_close that also deletes the connection files
on_close_removes_files ==
    /\ terminate_all
    /\ closed' = TRUE
    /\ files' = << >>
    /\ UNCHANGED << shutdown_log, session, conf, secrets, kernel_id, signal_connections,
                    client_calls, call_log >>

on_close ==
    /\ terminate_all
    /\ closed' = TRUE
    /\ UNCHANGED << shutdown_log, session, conf, secrets, kernel_id, signal_connections, files,
                    client_calls, call_log >>

-----------------------------------------------------------------------------
(* Specifications *)

\* The kernel the server starts for the n-th request: each has its own id.
StartedKernel(n) ==
    [id |-> "k" \o ToString(n), connection_info |-> "ci" \o ToString(n)]

\* A store in which server s1 uses method a1 and server s2 method a2.
ConfWith(a1, a2) ==
    [k \in PlainKeys |->
        IF k = Key2("s1", "auth_method") THEN PyStrVal(a1)
        ELSE IF k = Key2("s2", "auth_method") THEN PyStrVal(a2)
        ELSE BaseConf[k]]

\* A secure store: the password of every server, and what is kept under the
\* keys "passphrase" and "passpharse".
SecretsWith(password, passphrase, passpharse) ==
    [k \in SecureKeys |->
        IF \E s \in Servers : k = Key2(s, "password") THEN password
        ELSE IF \E s \in Servers : k = Key2(s, "passphrase") THEN passphrase
        ELSE passpharse]

SecretValues(word) == { None, PyStrVal(""), PyStrVal(word) }

\* No test session: nothing collected, no hook run
NoSession ==
    [items |-> << >>, environ |-> << >>, platform |-> << >>, log |-> None,
     ran |-> {}, markers |-> [slow_option \in BOOLEAN |-> << >>]]

\* The container after setup()
InitContainer ==
    /\ kernel_id = [c \in Clients |-> None]
    /\ signal_connections = [c \in Clients |-> 0]
    /\ files = << >>
    /\ workers = << >>
    /\ queue = << >>
    /\ running = {}
    /\ closed = FALSE
    /\ client_calls = << >>
    /\ call_log = << >>
    /\ shutdown_log = << >>

InitRest ==
    /\ InitContainer
    /\ session = NoSession

\* sig_finished is delivered once to the slot, unless the worker was terminated
Deliverable(j) ==
    /\ State(workers[j]) \in {"Succeeded", "Failed"}
    /\ ~workers[j].terminated

KernelStarted ==
    /\ ~closed
    /\ Len(call_log) < MaxCalls
    /\ \E ipyclient \in Clients :
           on_kernel_started(ipyclient, StartedKernel(Len(call_log) + 1))

TunnelOpened ==
    \E j \in running, output \in Outputs : WorkerRun(j, output, None)

TunnelFailed ==
    \E j \in running, error \in Errors : WorkerRun(j, None, error)

FinishKernelConnection ==
    \E j \in DOMAIN workers :
        /\ Deliverable(j)
        /\ _finish_kernel_connection(j, workers[j].output, workers[j].error)

Close ==
    /\ ~closed
    /\ on_close

Init ==
    /\ conf \in { ConfWith(a1, KeyFile) : a1 \in AuthenticationMethod }
    /\ secrets = SecretsWith(PyStrVal("hunter2"), None, PyStrVal("phrase"))
    /\ InitRest

\* With at most MaxCalls requests the five threads are never all taken and the
\* queue stays empty: the manager's queue is exercised by SpecPool.
Next ==
    \/ KernelStarted
    \/ TunnelOpened
    \/ TunnelFailed
    \/ FinishKernelConnection
    \/ Close

Spec == Init /\ [][Next]_vars

\* More requests than threads, all from one client of a Password server.
PoolKernelStarted ==
    /\ ~closed
    /\ Len(call_log) < MaxPoolCalls
    /\ on_kernel_started("c1", StartedKernel(Len(call_log) + 1))

PoolTunnelFailed ==
    \E j \in running :
        WorkerRun(j, None, PyException("RuntimeError", <<"Tunnel failed to start">>))

InitPool ==
    /\ conf = ConfWith(Password, KeyFile)
    /\ secrets = SecretsWith(PyStrVal("hunter2"), None, PyStrVal("phrase"))
    /\ InitRest

NextPool ==
    \/ PoolKernelStarted
    \/ TunnelOpened
    \/ PoolTunnelFailed
    \/ WorkerManagerStartNext
    \/ FinishKernelConnection
    \/ Close

SpecPool == InitPool /\ [][NextPool]_vars

\* Credential resolution: one client, every method, every content of the
\* secure store.
CredKernelStarted ==
    /\ Len(call_log) < MaxCredCalls
    /\ on_kernel_started("c1", StartedKernel(Len(call_log) + 1))

InitCred ==
    /\ conf \in { ConfWith(a1, KeyFile) : a1 \in AuthenticationMethod }
    /\ secrets \in { SecretsWith(password, passphrase, passpharse) :
                       password \in SecretValues("hunter2"),
                       passphrase \in SecretValues("phrase"),
                       passpharse \in SecretValues("phrase") }
    /\ InitRest

NextCred ==
    \/ CredKernelStarted
    \/ TunnelOpened
    \/ TunnelFailed
    \/ FinishKernelConnection

SpecCred == InitCred /\ [][NextCred]_vars

-----------------------------------------------------------------------------
(* Vocabulary of the properties *)

Jobs == DOMAIN workers

\* How many times the callback of job j invoked the client method
NumCalls(j, method) ==
    Cardinality({ i \in DOMAIN client_calls[j] : client_calls[j][i].method = method })

\* The completion callback of job j has run
CallbackRan(j) == Len(workers[j].history) >= 4

\* The number of times the job was handed to the worker manager
NumSubmitted(j) ==
    Cardinality({ i \in DOMAIN workers[j].history : workers[j].history[i] = "Submitted" })

\* The handle the callback is to build for job j: what on_kernel_started
\* passed to the tunnel worker, the job's connection file and its own output
ExpectedHandle(j) ==
    [connection_file |-> workers[j].connection_file,
     hostname |-> workers[j].args[2],
     sshkey |-> workers[j].args[3],
     password |-> workers[j].args[4],
     kernel_ports |-> workers[j].output]

\* The calls to on_kernel_started that found the given method configured
CallsWith(methods) ==
    { n \in DOMAIN call_log : call_log[n].auth_method \in { PyStrVal(m) : m \in methods } }

KeysRead(n) == { call_log[n].reads[i].key : i \in DOMAIN call_log[n].reads }

-----------------------------------------------------------------------------
(* C1: tunnel failure *)

\* C1: for every job whose worker finished with an error, the callback calls
\* show_kernel_error on the job's client exactly once, with a non-empty
\* message, never calls connect_kernel, and the job is not submitted again.
C1_ErrorReportedOnceNonEmpty ==
    \A j \in Jobs :
        workers[j].error # None =>
            /\ NumCalls(j, "connect_kernel") = 0
            /\ NumSubmitted(j) = 1
            /\ NumCalls(j, "show_kernel_error") = (IF CallbackRan(j) THEN 1 ELSE 0)
            /\ \A i \in DOMAIN client_calls[j] :
                   /\ client_calls[j][i].ipyclient = workers[j].ipyclient
                   /\ client_calls[j][i].arg # PyStrVal("")

\* The part of C1 that does not depend on the text of the error
C1_ErrorReportedOnce ==
    \A j \in Jobs :
        workers[j].error # None =>
            /\ NumCalls(j, "connect_kernel") = 0
            /\ NumSubmitted(j) = 1
            /\ NumCalls(j, "show_kernel_error") = (IF CallbackRan(j) THEN 1 ELSE 0)
            /\ \A i \in DOMAIN client_calls[j] :
                   /\ client_calls[j][i].ipyclient = workers[j].ipyclient
                   /\ client_calls[j][i].arg = PyStrVal(PyStrError(workers[j].error))

-----------------------------------------------------------------------------
(* C2: tunnel success *)

\* C2: for every job whose worker finished without an error, the callback
\* never calls show_kernel_error and calls connect_kernel exactly once, on the
\* job's client, with a handle made of the job's connection file, hostname,
\* key, password and the worker's output as kernel ports.
C2_HandleAttachedOnce ==
    \A j \in Jobs :
        (State(workers[j]) \in {"Succeeded", "Attached"} /\ workers[j].error = None) =>
            /\ NumCalls(j, "show_kernel_error") = 0
            /\ NumCalls(j, "connect_kernel") = (IF CallbackRan(j) THEN 1 ELSE 0)
            /\ \A i \in DOMAIN client_calls[j] :
                   /\ client_calls[j][i].ipyclient = workers[j].ipyclient
                   /\ client_calls[j][i].arg = ExpectedHandle(j)
                   /\ client_calls[j][i].arg.connection_file \in DOMAIN files
                   /\ client_calls[j][i].arg.kernel_ports \in Outputs

C2_Witness ==
    \E j \in Jobs :
        /\ State(workers[j]) = "Attached"
        /\ NumCalls(j, "connect_kernel") = 1
        /\ workers[j].password # None

-----------------------------------------------------------------------------
(* C3: the pool's cap *)

\* A call to on_kernel_started made while five workers run puts its job at
\* the end of the queue: the job is created, nothing is raised and no client
\* method is invoked.
QueuedWhenFull ==
    (Len(call_log') = Len(call_log) + 1 /\ Cardinality(running) = 5) =>
        /\ Len(workers') = Len(workers) + 1
        /\ queue' = Append(queue, Len(workers'))
        /\ running' = running
        /\ call_log'[Len(call_log')].raised = ""
        /\ call_log'[Len(call_log')].job = Len(workers')
        /\ client_calls' = Append(client_calls, << >>)

\* C3: at most five tunnel jobs run at any time, however many were
\* requested, and a request made while five run is queued, neither rejected
\* nor reported to its client as an error.
C3_AtMostFiveRunning ==
    /\ [](/\ Cardinality(running) <= 5
          /\ \A i \in DOMAIN queue :
                 /\ State(workers[queue[i]]) = "Submitted"
                 /\ client_calls[queue[i]] = << >>)
    /\ [][QueuedWhenFull]_vars

C3_Witness ==
    /\ Cardinality(running) = 5
    /\ Len(queue) >= 1
    /\ Len(call_log) >= 6

-----------------------------------------------------------------------------
(* C4: the states of a job *)

JobChains ==
    { << "Created", "Submitted", "Succeeded", "Attached" >>,
      << "Created", "Submitted", "Failed", "Reported" >> }

IsPrefix(s, t) == Len(s) <= Len(t) /\ SubSeq(t, 1, Len(s)) = s

\* Every job stays a job, and a job's history only grows.
HistoriesGrow ==
    \A j \in Jobs :
        /\ j \in DOMAIN workers'
        /\ IsPrefix(workers[j].history, workers'[j].history)
        /\ Len(workers'[j].history) <= Len(workers[j].history) + 1

\* C4: a job moves only along Created -> Submitted -> Succeeded -> Attached
\* or Created -> Submitted -> Failed -> Reported: it reaches at most one of
\* Attached and Reported, never leaves it and never goes back, and it is
\* submitted once, so a retry is a new job made by a new on_kernel_started.
C4_JobStateMachine ==
    /\ [](\A j \in Jobs : \E chain \in JobChains :
              /\ Len(workers[j].history) >= 2
              /\ IsPrefix(workers[j].history, chain))
    /\ [][HistoriesGrow]_vars

C4_Witness ==
    \E j1, j2 \in Jobs :
        /\ workers[j1].history = << "Created", "Submitted", "Succeeded", "Attached" >>
        /\ workers[j2].history = << "Created", "Submitted", "Failed", "Reported" >>
        /\ workers[j1].ipyclient = workers[j2].ipyclient

-----------------------------------------------------------------------------
(* C5: teardown *)

-----------------------------------------------------------------------------
(* C6: failures are scoped to one job *)

\* C6: whatever the other jobs do, the callback of a job invokes methods of
\* the job's own client only; show_kernel_error is called exactly when the
\* job's own worker failed, with that worker's error; and a job whose own
\* worker succeeded is attached with the handle made of its own request and
\* output, so the outcome of a job is a function of that job alone.
C6_FailureScopedToJob ==
    \A j \in Jobs :
        /\ \A i \in DOMAIN client_calls[j] :
               client_calls[j][i].ipyclient = workers[j].ipyclient
        /\ NumCalls(j, "show_kernel_error") =
               (IF CallbackRan(j) /\ workers[j].error # None THEN 1 ELSE 0)
        /\ NumCalls(j, "connect_kernel") =
               (IF CallbackRan(j) /\ workers[j].error = None THEN 1 ELSE 0)
        /\ \A i \in DOMAIN client_calls[j] :
               IF client_calls[j][i].method = "connect_kernel"
               THEN client_calls[j][i].arg = ExpectedHandle(j)
               ELSE client_calls[j][i].arg = PyStrVal(PyStrError(workers[j].error))

C6_Witness ==
    \E j1, j2 \in Jobs :
        /\ j1 < j2
        /\ workers[j1].ipyclient # workers[j2].ipyclient
        /\ State(workers[j1]) = "Reported"
        /\ State(workers[j2]) = "Attached"
        /\ \E j3 \in Jobs : j3 > j2 /\ State(workers[j3]) = "Submitted"

-----------------------------------------------------------------------------
(* C7: a method that is neither Password nor KeyFile *)

\* The keys on_kernel_started reads before it resolves credentials
CommonKeys(config_id, method) ==
    { Key2(config_id, "auth_method"),
      Key3(config_id, PyStrVal(method), "address"),
      Key3(config_id, PyStrVal(method), "username"),
      Key3(config_id, PyStrVal(method), "port") }

\* No worker was made for the connection file of call n
NoJobFor(n) ==
    /\ call_log[n].job = 0
    /\ \A j \in Jobs : workers[j].connection_file # call_log[n].connection_file

\* C7 as stated: with a method that is neither Password nor KeyFile no
\* credential is resolved and the handshake proceeds: the connection file is
\* written and a tunnel job is submitted, with no error raised to the caller.
C7_OtherMethodProceeds ==
    \A n \in CallsWith({ConfigFile}) :
        /\ KeysRead(n) = CommonKeys(server_id(call_log[n].ipyclient), ConfigFile)
        /\ call_log[n].connection_file \in DOMAIN files
        /\ call_log[n].raised = ""
        /\ call_log[n].job \in Jobs

\* C7, amended: with a method that is neither Password nor KeyFile no
\* credential is resolved and the connection file is written, and then the
\* call ends with UnboundLocalError raised to the caller: no worker is
\* created, submitted or started, and no method of the client is invoked.
C7_OtherMethodRaises ==
    \A n \in CallsWith({ConfigFile}) :
        /\ KeysRead(n) = CommonKeys(server_id(call_log[n].ipyclient), ConfigFile)
        /\ call_log[n].connection_file \in DOMAIN files
        /\ call_log[n].raised = "UnboundLocalError"
        /\ NoJobFor(n)
        /\ Len(workers) = Len(client_calls)
        /\ Cardinality({ m \in DOMAIN call_log : call_log[m].job # 0 }) = Len(workers)

C7_Witness ==
    \E n \in CallsWith({ConfigFile}) :
        /\ call_log[n].raised = "UnboundLocalError"
        /\ kernel_id[call_log[n].ipyclient] = PyStrVal(call_log[n].kernel_info.id)
        /\ call_log[n].connection_file \in DOMAIN files

-----------------------------------------------------------------------------
(* C8: the password under KeyFile *)

\* The values call n fetched from the secure store
SecretsRead(n) ==
    { call_log[n].reads[i].value :
          i \in { k \in DOMAIN call_log[n].reads : call_log[n].reads[k].secure } }

\* C8: under KeyFile, the password given to the tunnel worker and kept on
\* the job is never the empty string, and it is None whenever the passphrase
\* fetched from the secure store is empty or absent.
C8_EmptyPassphraseIsNone ==
    \A n \in CallsWith({KeyFile}) :
        /\ call_log[n].job \in Jobs
        /\ LET w == workers[call_log[n].job]
           IN /\ w.password # PyStrVal("")
              /\ w.args[4] # PyStrVal("")
              /\ (SecretsRead(n) \subseteq { None, PyStrVal("") }) =>
                     (w.password = None /\ w.args[4] = None)

C8_Witness ==
    \E n \in CallsWith({KeyFile}) :
        /\ SecretsRead(n) = { PyStrVal("") }
        /\ call_log[n].job \in Jobs
        /\ workers[call_log[n].job].password = None

-----------------------------------------------------------------------------
(* C9: credentials per method *)

\* "{username}@{address}:{port}" of the fields stored for the method
StoredHostname(config_id, method) ==
    PyFormat(conf[Key3(config_id, PyStrVal(method), "username")]) \o "@"
        \o PyFormat(conf[Key3(config_id, PyStrVal(method), "address")]) \o ":"
        \o PyFormatInt(conf[Key3(config_id, PyStrVal(method), "port")])

\* The job of call n has the given hostname, key and password, both as
\* worker attributes and as arguments of the tunnel function
JobHas(n, hostname, sshkey, password) ==
    /\ call_log[n].job \in Jobs
    /\ LET w == workers[call_log[n].job]
       IN /\ w.hostname = hostname /\ w.args[2] = hostname
          /\ w.sshkey = sshkey /\ w.args[3] = sshkey
          /\ w.password = password /\ w.args[4] = password

\* C9, Password: no key, the secret "password", the Password hostname
C9_PasswordMethod ==
    \A n \in CallsWith({Password}) :
        LET config_id == server_id(call_log[n].ipyclient)
        IN JobHas(n, StoredHostname(config_id, Password), None,
                  secrets[Key2(config_id, "password")])

\* C9, KeyFile: the stored key file, the KeyFile hostname, and the secret
\* "passphrase" as password when one is present
C9_KeyFileMethod ==
    \A n \in CallsWith({KeyFile}) :
        LET config_id == server_id(call_log[n].ipyclient)
            passphrase == secrets[Key2(config_id, "passphrase")]
        IN /\ call_log[n].job \in Jobs
           /\ JobHas(n, StoredHostname(config_id, KeyFile),
                     conf[Key3(config_id, PyStrVal(KeyFile), "keyfile")],
                     workers[call_log[n].job].password)
           /\ PyBool(passphrase) => workers[call_log[n].job].password = passphrase

\* C9: under Password the job gets no key and the secret "password"; under
\* KeyFile it gets the stored "keyfile" and, when one is present, the secret
\* "passphrase" as its password; the hostname is "{username}@{address}:{port}"
\* of the method's own fields.
C9_CredentialsPerMethod == C9_PasswordMethod /\ C9_KeyFileMethod

-----------------------------------------------------------------------------
(* C10: the fields read per method *)

\* The fields defined for a method
DefinedKeys(config_id, method) ==
    CommonKeys(config_id, method) \cup
        (IF method = Password
         THEN { Key2(config_id, "password") }
         ELSE { Key3(config_id, PyStrVal(KeyFile), "keyfile"),
                Key2(config_id, "passphrase") })

\* C10: with Password or KeyFile configured, on_kernel_started reads exactly
\* the fields defined for that method and none of another method's.
C10_ReadsExactlyOwnFields ==
    \A m \in {Password, KeyFile} :
        \A n \in CallsWith({m}) :
            KeysRead(n) = DefinedKeys(server_id(call_log[n].ipyclient), m)

\* The part of C10 about the other method's fields: under Password neither
\* keyfile nor passphrase is read, under KeyFile the password is not, and
\* address, username and port are read under the selected method only.
C10_ReadsNoOtherNamespace ==
    \A m \in {Password, KeyFile} :
        \A n \in CallsWith({m}) :
            LET config_id == server_id(call_log[n].ipyclient)
                other == IF m = Password THEN KeyFile ELSE Password
            IN /\ CommonKeys(config_id, m) \subseteq KeysRead(n)
               /\ KeysRead(n) \cap DefinedKeys(config_id, other)
                      = { Key2(config_id, "auth_method") }
               /\ \A o \in {"address", "username", "port", "keyfile"} :
                      /\ Key3(config_id, PyStrVal(other), o) \notin KeysRead(n)
                      /\ Key3(config_id, PyStrVal(ConfigFile), o) \notin KeysRead(n)

-----------------------------------------------------------------------------
(* The configuration store changes: status updates and edited servers *)


\* set_conf(key, value), on a store
set_conf(store, key, value) ==
    [k \in DOMAIN store \cup {key} |-> IF k = key THEN value ELSE store[k]]

\* _on_connection_status_changed with the message added to the one stored
StoreAfterStatusAppended(store, info) ==
    LET host_id == info.id
        old == IF Key2(host_id, "status_message") \in DOMAIN store
               THEN store[Key2(host_id, "status_message")][1]
               ELSE ""
    IN set_conf(set_conf(store, Key2(host_id, "status"), PyStrVal(info.status)),
                Key2(host_id, "status_message"), PyStrVal(old \o info.message))

\* The store as _on_connection_status_changed(info) leaves it
StoreAfterStatus(store, info) ==
    LET host_id == info.id
        status == info.status
        message == info.message
    IN set_conf(set_conf(store, Key2(host_id, "status"), PyStrVal(status)),
                Key2(host_id, "status_message"), PyStrVal(message))

_on_connection_status_changed(info) ==
    /\ conf' = StoreAfterStatus(conf, info)
    /\ UNCHANGED << secrets, kernel_id, signal_connections, files, workers, queue,
                    running, closed, client_calls, call_log, shutdown_log, session >>

\* ConnectionInfo: {id, status, message}
ConnectionInfos ==
    [id : Servers, status : {"inactive", "connecting", "active"},
     message : {"", "Connection established"}]

ConnectionStatusChanged ==
    \E info \in ConnectionInfos : _on_connection_status_changed(info)

\* The connection dialog saves an edited Password server: a new address and
\* a new secret password.
ServerEdited ==
    \E address \in {"pw.host", "new.host"}, password \in {"hunter2", "changed"} :
        /\ conf' = [conf EXCEPT ![Key3("s1", PyStrVal(Password), "address")] =
                        PyStrVal(address)]
        /\ secrets' = [secrets EXCEPT ![Key2("s1", "password")] = PyStrVal(password)]
        /\ UNCHANGED << kernel_id, signal_connections, files, workers, queue,
                        running, closed, client_calls, call_log, shutdown_log,
                        session >>

StoreKernelStarted ==
    /\ Len(call_log) < MaxStoreCalls
    /\ on_kernel_started("c1", StartedKernel(Len(call_log) + 1))

InitStore ==
    /\ conf = ConfWith(Password, KeyFile)
    /\ secrets = SecretsWith(PyStrVal("hunter2"), None, PyStrVal("phrase"))
    /\ InitRest

\* Servers are edited while tunnels are being opened.
NextStore ==
    \/ StoreKernelStarted
    \/ TunnelOpened
    \/ TunnelFailed
    \/ FinishKernelConnection
    \/ ServerEdited

SpecStore == InitStore /\ [][NextStore]_vars

\* Status updates arrive and servers are edited.
NextStatus ==
    \/ ConnectionStatusChanged
    \/ ServerEdited

SpecStatus == InitStore /\ [][NextStatus]_vars

-----------------------------------------------------------------------------
(* C11: the callback uses what the job captured *)

\* The values call n fetched for the given option
ValuesRead(n, key) ==
    { call_log[n].reads[i].value :
          i \in { k \in DOMAIN call_log[n].reads : call_log[n].reads[k].key = key } }

\* C11: the handle the callback attaches is made of the client, connection
\* file, hostname, key and password the job was given at submission, which
\* are the values fetched by on_kernel_started and passed to the tunnel
\* worker, whatever the configuration store holds when the worker finishes.
C11_HandleFromCapturedValues ==
    \A n \in CallsWith({Password}) :
        LET j == call_log[n].job
            config_id == server_id(call_log[n].ipyclient)
        IN /\ j \in Jobs
           /\ workers[j].ipyclient = call_log[n].ipyclient
           /\ workers[j].connection_file = call_log[n].connection_file
           /\ workers[j].hostname = workers[j].args[2]
           /\ workers[j].sshkey = workers[j].args[3]
           /\ workers[j].password = workers[j].args[4]
           /\ ValuesRead(n, Key2(config_id, "password")) = { workers[j].args[4] }
           /\ \A i \in DOMAIN client_calls[j] :
                  client_calls[j][i].method = "connect_kernel" =>
                      /\ client_calls[j][i].ipyclient = call_log[n].ipyclient
                      /\ client_calls[j][i].arg =
                             [connection_file |-> call_log[n].connection_file,
                              hostname |-> workers[j].args[2],
                              sshkey |-> workers[j].args[3],
                              password |-> workers[j].args[4],
                              kernel_ports |-> workers[j].output]

C11_Witness ==
    \E j \in Jobs :
        /\ State(workers[j]) = "Attached"
        /\ client_calls[j][1].arg.password # secrets[Key2("s1", "password")]
        /\ client_calls[j][1].arg.hostname # StoredHostname("s1", Password)

-----------------------------------------------------------------------------
(* C13: status updates are idempotent *)

\* C13: for every store and every update {id, status, message}, the store
\* after _on_connection_status_changed is applied twice with the update is
\* the store after it is applied once.
C13_StatusUpdateIdempotent ==
    \A info \in ConnectionInfos :
        StoreAfterStatus(StoreAfterStatus(conf, info), info) = StoreAfterStatus(conf, info)

C13_Witness ==
    \E info \in ConnectionInfos :
        /\ info.message # ""
        /\ conf = StoreAfterStatus(conf, info)
        /\ \E other \in Servers : Key2(other, "status") \notin DOMAIN conf
        /\ conf[Key3("s1", PyStrVal(Password), "address")] = PyStrVal("new.host")

-----------------------------------------------------------------------------
(* C12: one pending job per tunnel request in flight *)

\* The jobs the component still has to finish: waiting for a thread, running
\* in one, or finished with the callback still to run
NumPendingJobs ==
    Cardinality({ i \in DOMAIN queue : queue[i] \in Jobs })
        + Cardinality(running)
        + Cardinality({ j \in Jobs : Deliverable(j) })

\* The calls to on_kernel_started that submitted a tunnel request
SubmittingCalls == { n \in DOMAIN call_log : call_log[n].job # 0 }

\* The jobs whose completion was handled, and those the teardown dropped
HandledJobs == { j \in Jobs : client_calls[j] # << >> }
DroppedJobs == { j \in Jobs : workers[j].terminated }

\* C12: every call that submits makes exactly one job, and the number of
\* pending jobs is the number of requests submitted and not finished: a job
\* is no longer pending once its completion was handled, with or without an
\* error.
C12_OnePendingJobPerRequest ==
    /\ Len(workers) = Cardinality(SubmittingCalls)
    /\ \A j \in Jobs :
           Cardinality({ n \in SubmittingCalls : call_log[n].job = j }) = 1
    /\ NumPendingJobs = Cardinality(SubmittingCalls)
                            - Cardinality(HandledJobs) - Cardinality(DroppedJobs)
    /\ \A j \in HandledJobs :
           /\ State(workers[j]) \in {"Attached", "Reported"}
           /\ j \notin running
           /\ \A i \in DOMAIN queue : queue[i] # j

C12_Witness ==
    /\ Len(queue) = 1
    /\ Cardinality(running) = 3
    /\ NumPendingJobs = 4
    /\ \E j1, j2 \in HandledJobs :
           /\ State(workers[j1]) = "Attached"
           /\ State(workers[j2]) = "Reported"

-----------------------------------------------------------------------------
(* C14: the connection files *)

\* The connection files of the first n attempts
FilesOfAttempts(n) == { call_log[i].connection_file : i \in 1..n }

\* C14: each call to on_kernel_started writes exactly one connection file, at
\* a path no earlier attempt used, holding the kernel's connection info, and
\* nothing removes or rewrites a file: after any run, with callbacks run and
\* the container closed or not, the files are exactly those of the attempts
\* made, one per attempt.
C14_OneFreshFilePerAttempt ==
    /\ DOMAIN files = FilesOfAttempts(Len(call_log))
    /\ Cardinality(DOMAIN files) = Len(call_log)
    /\ \A n \in DOMAIN call_log :
           /\ call_log[n].connection_file \notin FilesOfAttempts(n - 1)
           /\ files[call_log[n].connection_file] =
                  json_dump(call_log[n].kernel_info.connection_info)

\* Three attempts, one of them raising after its file was written, one
\* attached and one reported, and the container closed afterwards.
C14_Witness ==
    /\ Len(call_log) = 3
    /\ closed
    /\ \E n \in DOMAIN call_log : call_log[n].raised # ""
    /\ \E j \in DOMAIN workers : State(workers[j]) = "Attached"
    /\ \E j \in DOMAIN workers : State(workers[j]) = "Reported"
    /\ Cardinality(DOMAIN files) = 3

-----------------------------------------------------------------------------
(* C15: the order of the steps of one job *)

FiveFields == {"ipyclient", "connection_file", "hostname", "sshkey", "password"}

\* What exists before the first statement of on_kernel_started
NothingDone ==
    [resolved |-> FALSE, file |-> FALSE, created |-> FALSE, attrs |-> {},
     connected |-> FALSE, started |-> FALSE, raised |-> FALSE]

\* What exists after one more statement
AfterStep(w, step) ==
    CASE step.op = "resolve" -> [w EXCEPT !.resolved = TRUE]
      [] step.op = "write_file" -> [w EXCEPT !.file = TRUE]
      [] step.op = "create_worker" -> [w EXCEPT !.created = TRUE]
      [] step.op = "set" -> [w EXCEPT !.attrs = @ \cup {step.arg}]
      [] step.op = "connect_sig_finished" -> [w EXCEPT !.connected = TRUE]
      [] step.op = "start" -> [w EXCEPT !.started = TRUE]
      [] OTHER -> [w EXCEPT !.raised = TRUE]

\* What exists after the first k statements of a call
RECURSIVE After(_, _)
After(steps, k) ==
    IF k = 0 THEN NothingDone ELSE AfterStep(After(steps, k - 1), steps[k])

\* The call that made job j
CallOf(j) == CHOOSE n \in DOMAIN call_log : call_log[n].job = j

\* At every point of every call: the file is written after the configuration
\* is resolved, the worker created after the file is written, fields and
\* callback set on a created worker, the worker started with its five fields
\* set and the callback registered; and a job whose callback has run was
\* started that way and has its file.
C15_StepsOrdered ==
    /\ \A n \in DOMAIN call_log : \A k \in 0..Len(call_log[n].steps) :
           LET w == After(call_log[n].steps, k)
           IN /\ w.file => w.resolved
              /\ w.created => w.file
              /\ (w.attrs # {} \/ w.connected) => w.created
              /\ w.started => (w.attrs = FiveFields /\ w.connected)
              /\ w.raised => ~w.started
    /\ \A j \in Jobs :
           LET n == CallOf(j)
               w == After(call_log[n].steps, Len(call_log[n].steps))
           IN /\ w.started
              /\ CallbackRan(j) =>
                     /\ w.attrs = FiveFields
                     /\ call_log[n].connection_file \in DOMAIN files
                     /\ workers[j].connection_file = call_log[n].connection_file

\* on_kernel_started returns with the job submitted and the tunnel's result
\* still to come
C15_ReturnsBeforeTunnel ==
    \A n \in DOMAIN call_log' \ DOMAIN call_log :
        call_log'[n].job # 0 =>
            LET j == call_log'[n].job
            IN /\ State(workers'[j]) = "Submitted"
               /\ workers'[j].output = None
               /\ workers'[j].error = None
               /\ client_calls'[j] = << >>

\* C15: within one job the steps are strictly ordered (resolve, write the
\* file, create the worker, set the five fields and register the callback,
\* start), so the completion callback never runs before the five fields are
\* set and the file exists, and on_kernel_started returns without waiting
\* for the tunnel.
C15_OrderedAndNonBlocking ==
    /\ []C15_StepsOrdered
    /\ [][C15_ReturnsBeforeTunnel]_vars

\* One job's callback has run, another job is still in its thread after its
\* call returned, and one call raised before creating a worker.
C15_Witness ==
    /\ \E j \in Jobs : CallbackRan(j)
    /\ \E j \in Jobs : j \in running /\ State(workers[j]) = "Submitted"
    /\ \E n \in DOMAIN call_log : call_log[n].raised # ""

-----------------------------------------------------------------------------
(* C16: every submitted job is finished *)

\* The pool is never torn down; the manager hands out free threads, every
\* tunnel function returns or raises, and the event loop delivers every
\* sig_finished.
NextLive ==
    \/ PoolKernelStarted
    \/ TunnelOpened
    \/ PoolTunnelFailed
    \/ WorkerManagerStartNext
    \/ FinishKernelConnection

SpecLive ==
    /\ InitPool
    /\ [][NextLive]_vars
    /\ WF_vars(WorkerManagerStartNext)
    /\ WF_vars(TunnelOpened \/ PoolTunnelFailed)
    /\ WF_vars(FinishKernelConnection)

Started(j) == j \in running \/ Len(workers[j].history) >= 3
Finished(j) == State(workers[j]) \in {"Attached", "Reported"}

\* A finished job had exactly one of the two outcomes
OneOutcome(j) ==
    Finished(j) =>
        /\ NumCalls(j, "connect_kernel") + NumCalls(j, "show_kernel_error") = 1
        /\ State(workers[j]) = "Attached" <=> NumCalls(j, "connect_kernel") = 1

\* C16: under fair scheduling, with every tunnel worker terminating and no
\* teardown, every job submitted by on_kernel_started, also one that had to
\* wait because five jobs were running, eventually starts and eventually
\* ends in exactly one of Attached and Reported.  Jobs are never removed
\* from the set of submitted jobs, so "every submitted job is eventually
\* finished" is: again and again, all the jobs submitted so far are finished.
C16_EveryJobFinishes ==
    /\ []<>(\A j \in Jobs : Started(j) /\ Finished(j))
    /\ [](\A j \in Jobs : OneOutcome(j))
    /\ [][\A j \in Jobs : Finished(j) => Finished(j)']_vars

\* The sixth job was queued behind five running ones and still waits for a
\* thread, while jobs before it have ended, one attached and one reported.
C16_Witness ==
    /\ Len(workers) = 6
    /\ queue = << 6 >>
    /\ ~Started(6)
    /\ \E j \in Jobs : Finished(j) /\ State(workers[j]) = "Attached"
    /\ \E j \in Jobs : Finished(j) /\ State(workers[j]) = "Reported"

-----------------------------------------------------------------------------
(* conftest.py: pytest_collection_modifyitems *)

\* A nodeid is the sequence of its path components; 'name' in item.nodeid is
\* modelled as name being one of them.  A line of pytest_log.txt is the
\* sequence of its space-separated words, each word a sequence of components
\* too, so that a nodeid is one word.
NodeIds ==
    << << "spyder", "app", "tests", "test_mainwindow.py", "test_a" >>,
       << "spyder", "plugins", "ipythonconsole", "tests", "test_ipythonconsole.py", "test_1" >>,
       << "spyder", "plugins", "ipythonconsole", "tests", "test_ipythonconsole.py", "test_2" >>,
       << "spyder", "plugins", "editor", "tests", "test_editor.py", "test_x" >>,
       << "spyder", "plugins", "ipythonconsole", "tests", "test_ipythonconsole.py", "test_3" >> >>

Contains(nodeid, name) ==
    \E i \in DOMAIN nodeid : nodeid[i] = name \/ nodeid[i] = name \o ".py"

Word(text) == << text >>

LogLines ==
    << << NodeIds[1], Word("PASSED"), Word("["), Word("10%]") >>,
       << NodeIds[2], Word("FAILED") >>,
       << NodeIds[3], Word("SKIPPED") >>,
       << NodeIds[4], Word("XFAIL") >>,
       << Word("collected"), NodeIds[5], Word("PASSED") >> >>

\* test_re.match(line) for test_re = r'(spyder.*) [^ ]*(SKIPPED|PASSED|XFAIL)':
\* the line starts with spyder and a later word holds one of the three
\* outcomes; group(1), by the greedy .*, is everything before the last such
\* word.  The result is None or the words of group(1).
test_re_match(line) ==
    LET ends == { k \in 2..Len(line) :
                     line[k] \in { Word("SKIPPED"), Word("PASSED"), Word("XFAIL") } }
    IN IF line # << >> /\ Head(line[1]) = "spyder" /\ ends # {}
       THEN << SubSeq(line, 1, (CHOOSE k \in ends : \A m \in ends : m <= k) - 1) >>
       ELSE None

\* get_passed_tests(): the set of group(1) of the matching lines, or the empty
\* list when there is no log file
get_passed_tests(log) ==
    IF log # None
    THEN { test_re_match(log[1][i])[1] : i \in { i \in DOMAIN log[1] :
                                                  test_re_match(log[1][i]) # None } }
    ELSE {}

\* item.nodeid in passed_tests
InPassedTests(nodeid, passed_tests) == << nodeid >> \in passed_tests

\* bool(os.environ.get(name))
EnvironTruthy(environ, name) == PyBool(environ[name])

\* percentage, in tenths
Percentage(platform) ==
    IF platform.os_name = "nt" THEN 4
    ELSE IF platform.sys_platform = "darwin" THEN 3
    ELSE 3

\* The positions in items of the items whose nodeid contains name
ItemsWith(items, name) == { i \in DOMAIN items : Contains(items[i], name) }

\* slow_items, as the set of positions in items of the items it holds.  The
\* i-th IPython console item (from 0) is slow when i < len * percentage; with
\* the few items of the model the float product is exact.
SlowItems(s) ==
    IF EnvironTruthy(s.environ, "CI")
           /\ ~EnvironTruthy(s.environ, "SPYDER_TEST_REMOTE_CLIENT")
    THEN LET ipyconsole_items == ItemsWith(s.items, "test_ipythonconsole")
             rank(i) == Cardinality({ m \in ipyconsole_items : m < i })
         IN ItemsWith(s.items, "test_mainwindow") \cup
            { i \in ipyconsole_items :
                  10 * rank(i) < Cardinality(ipyconsole_items) * Percentage(s.platform) }
    ELSE {}

\* ItemMarkers with the fast items also left unmarked under --run-slow
ItemMarkersKeepsFast(s, slow_option, i) ==
    LET passed_tests == get_passed_tests(s.log)
    IN (IF slow_option
        THEN << >>
        ELSE IF i \in SlowItems(s) THEN << "skip_slow" >> ELSE << >>)
       \o (IF InPassedTests(s.items[i], passed_tests)
           THEN << "skip_passed" >> ELSE << >>)

\* The markers the loop body adds to the item at position i
ItemMarkers(s, slow_option, i) ==
    LET passed_tests == get_passed_tests(s.log)
    IN (IF slow_option
        THEN IF i \notin SlowItems(s) THEN << "skip_fast" >> ELSE << >>
        ELSE IF i \in SlowItems(s) THEN << "skip_slow" >> ELSE << >>)
       \o (IF InPassedTests(s.items[i], passed_tests)
           THEN << "skip_passed" >> ELSE << >>)

\* One pytest run: the hook is called with the collected items
pytest_collection_modifyitems(slow_option) ==
    /\ slow_option \notin session.ran
    /\ session' = [session EXCEPT
           !.ran = @ \cup {slow_option},
           !.markers[slow_option] =
               [i \in DOMAIN session.items |-> ItemMarkers(session, slow_option, i)]]
    /\ UNCHANGED << conf, secrets, kernel_id, signal_connections, files, workers,
                    queue, running, closed, client_calls, call_log, shutdown_log >>

\* The collected items: some of the tests, in the order of collection
ItemLists ==
    { SelectSeq(NodeIds, LAMBDA nodeid : nodeid \in chosen) :
          chosen \in { c \in SUBSET { NodeIds[i] : i \in DOMAIN NodeIds } :
                          Cardinality(c) <= MaxItems } }

Environs ==
    [ { "CI", "SPYDER_TEST_REMOTE_CLIENT" } ->
          { None, PyStrVal(""), PyStrVal("true") } ]

Platforms ==
    { [os_name |-> "nt", sys_platform |-> "win32"],
      [os_name |-> "posix", sys_platform |-> "darwin"],
      [os_name |-> "posix", sys_platform |-> "linux"] }

\* No pytest_log.txt, or one holding some of the lines
Logs ==
    { None } \cup
    { << SubSeq(LogLines, a, b) >> : a \in 1..3, b \in { 0, 2, 5 } }

InitCollect ==
    /\ conf = BaseConf
    /\ secrets = SecretsWith(None, None, None)
    /\ InitContainer
    /\ session \in { [items |-> items, environ |-> environ, platform |-> platform,
                      log |-> log, ran |-> {},
                      markers |-> [slow_option \in BOOLEAN |-> << >>]] :
                        items \in ItemLists, environ \in Environs,
                        platform \in Platforms, log \in Logs }

\* pytest calls the hook once per run, with or without --run-slow
CollectionModifyItems ==
    \E slow_option \in BOOLEAN : pytest_collection_modifyitems(slow_option)

NextCollect == CollectionModifyItems

SpecCollect == InitCollect /\ [][NextCollect]_vars

-----------------------------------------------------------------------------
(* C17: the slow/fast split *)

Has(markers, marker) == \E m \in DOMAIN markers : markers[m] = marker

\* C17: for every list of items and every environment, an item gets skip_fast
\* in a --run-slow run if and only if it does not get skip_slow in a run without
\* the option, so an item not passed before is left to run in exactly one of the
\* two modes; and an item whose nodeid is in the passed tests gets skip_passed
\* in both modes.
C17_SlowFastPartition ==
    session.ran = BOOLEAN =>
        \A i \in DOMAIN session.items :
            LET slow == session.markers[TRUE][i]
                fast == session.markers[FALSE][i]
                passed == InPassedTests(session.items[i], get_passed_tests(session.log))
            IN /\ Has(slow, "skip_fast") <=> ~Has(fast, "skip_slow")
               /\ ~passed => ((slow = << >>) <=> (fast # << >>))
               /\ passed => (Has(slow, "skip_passed") /\ Has(fast, "skip_passed"))

\* Both runs made on a CI with a main window test, a slow and a fast IPython
\* console test and another test collected, one of them passed before.
C17_Witness ==
    /\ session.ran = BOOLEAN
    /\ Len(session.items) = 4
    /\ \E i, k \in ItemsWith(session.items, "test_ipythonconsole") :
           /\ i \in SlowItems(session)
           /\ k \notin SlowItems(session)
    /\ ItemsWith(session.items, "test_mainwindow") # {}
    /\ \E i \in DOMAIN session.items :
           /\ i \notin SlowItems(session)
           /\ ~Contains(session.items[i], "test_ipythonconsole")
    /\ \E i \in DOMAIN session.items :
           Has(session.markers[TRUE][i], "skip_passed")
    /\ \E i \in DOMAIN session.items :
           session.markers[TRUE][i] = << >>

-----------------------------------------------------------------------------
(* C18: the attached handle and the client's kernel *)

\* The callback of job j attaches a handle in this step
Attaches(j) ==
    /\ State(workers[j]) # "Attached"
    /\ State(workers'[j]) = "Attached"

\* The handle the callback of job j has passed to connect_kernel
AttachedHandle(j) == client_calls'[j][Len(client_calls'[j])].arg

\* C18: whenever connect_kernel attaches a handle to a client, the handle's
\* connection file holds the connection info of the kernel whose id is the
\* client's kernel_id at that moment, however many calls to on_kernel_started
\* were made for the client and in whatever order their jobs complete.
C18_HandleOfCurrentKernel ==
    [][\A j \in Jobs :
          Attaches(j) =>
              \E n \in DOMAIN call_log :
                  /\ PyStrVal(call_log[n].kernel_info.id)
                         = kernel_id'[workers[j].ipyclient]
                  /\ files'[AttachedHandle(j).connection_file]
                         = json_dump(call_log[n].kernel_info.connection_info)]_vars

-----------------------------------------------------------------------------
(* The shutdown requests of the clients *)

\* ipyclient.sig_shutdown_kernel_requested.emit(server_id, kernel_id): each
\* connection made by _connect_ipyclient_signals emits the container's
\* sig_shutdown_kernel_requested with the same arguments.
EmitShutdownRequested(ipyclient) ==
    LET args == << server_id(ipyclient), kernel_id[ipyclient] >>
    IN /\ shutdown_log' = Append(shutdown_log,
              [ipyclient |-> ipyclient,
               args |-> args,
               forwarded |-> [i \in 1..signal_connections[ipyclient] |-> args]])
       /\ UNCHANGED << session, conf, secrets, kernel_id, signal_connections,
                       files, workers, queue, running, closed, client_calls,
                       call_log >>

\* A client that was given a kernel asks for its shutdown
ShutdownRequested ==
    /\ Len(shutdown_log) < MaxShutdowns
    /\ \E ipyclient \in Clients :
           /\ kernel_id[ipyclient] # None
           /\ EmitShutdownRequested(ipyclient)

SignalsKernelStarted ==
    /\ Len(call_log) < MaxSignalCalls
    /\ \E ipyclient \in Clients :
           on_kernel_started(ipyclient, StartedKernel(Len(call_log) + 1))

NextSignals ==
    \/ SignalsKernelStarted
    \/ TunnelOpened
    \/ TunnelFailed
    \/ FinishKernelConnection
    \/ ShutdownRequested

SpecSignals == InitPool /\ [][NextSignals]_vars

-----------------------------------------------------------------------------
(* C19: one shutdown request, one forwarded signal *)

\* C19: a shutdown request a client emits once is forwarded by the container
\* as exactly one emission of sig_shutdown_kernel_requested with the same
\* server id and kernel id, however many times on_kernel_started was called
\* for the client.
C19_ShutdownForwardedOnce ==
    \A i \in DOMAIN shutdown_log :
        shutdown_log[i].forwarded = << shutdown_log[i].args >>

=============================================================================
